---- MODULE Spec2Model ----
(***************************************************************************)
(* BasicDoc (paperwork/backend/common/doc.py): a document backed by a      *)
(* directory, with an id, a path, a cache of derived properties, a label   *)
(* file and an extra-text side file.                                       *)
(*                                                                         *)
(* Strings are sequences of one-character strings, so that concatenation,  *)
(* "%02d" formatting, strip() and split(",") are computed as Python        *)
(* computes them.  An optional value is a sequence of length 0 or 1.       *)
(***************************************************************************)
EXTENDS Integers, Sequences, FiniteSets, TLC

VARIABLES
    docid,   \* self.__docid
    path,    \* self.path
    cache,   \* self.__cache
    fs,      \* the filesystem: existing directory |-> its label and extra-text files
    added,   \* history: the labels appended since the label file was absent
    faults,  \* history: how many opens and writes the environment has failed
    last,    \* history: the last call, its arguments and the branch it took
    stored,  \* the pages the page store holds: what self._get_nb_pages() counts
    counted, \* history: what _get_nb_pages() returned since the last drop_cache
    other,   \* self.__cache of a second BasicDoc on the same path
    told,    \* history: the labels whose last add_label or remove_label that
             \* wrote the file was an add_label
    wr       \* the open label file of a remove_label or update_label under way

vars ==
    <<docid, path, cache, fs, added, faults, last, stored, counted, other,
      told, wr>>

\* what the calls of one document, taken whole, leave alone
aux == <<stored, counted, other, told, wr>>

None == <<>>
Some(x) == <<x>>

\* a call: the operation, its first argument, the branch of the code it took
Call(op, a1, branch) == [op |-> op, a1 |-> a1, branch |-> branch]

\* a call that returned ret
CallRet(op, a1, branch, ret) ==
    [op |-> op, a1 |-> a1, branch |-> branch, ret |-> ret]

(***************************************************************************)
(* Bounds                                                                  *)
(***************************************************************************)
\* add_label is not called on a label list that already has this many labels
MaxLabels == 2
\* the environment fails at most this many opens and writes of the label file
MaxFaults == 1
\* the page store holds at most this many pages
MaxPages == 2

(***************************************************************************)
(* Strings                                                                 *)
(***************************************************************************)
Whitespace == {" ", "\n", "\t"}

DigitChars == <<"0", "1", "2", "3", "4", "5", "6", "7", "8", "9">>

RECURSIVE DecStr(_)
\* "%d" % n, n >= 0
DecStr(n) ==
    IF n < 10 THEN <<DigitChars[n + 1]>>
    ELSE DecStr(n \div 10) \o <<DigitChars[(n % 10) + 1]>>

\* "%02d" % n: decimal, padded with zeros to at least two characters
Fmt02d(n) ==
    IF Len(DecStr(n)) < 2 THEN <<"0">> \o DecStr(n) ELSE DecStr(n)

RECURSIVE LStrip(_)
LStrip(s) ==
    IF s # <<>> /\ Head(s) \in Whitespace THEN LStrip(Tail(s)) ELSE s

RECURSIVE RStrip(_)
RStrip(s) ==
    IF s # <<>> /\ s[Len(s)] \in Whitespace
    THEN RStrip(SubSeq(s, 1, Len(s) - 1))
    ELSE s

\* unicode.strip()
Strip(s) == RStrip(LStrip(s))

RECURSIVE SplitFrom(_, _, _)
\* s.split(sep) for a one-character sep; cur is the field being read
SplitFrom(s, sep, cur) ==
    IF s = <<>> THEN <<cur>>
    ELSE IF Head(s) = sep THEN <<cur>> \o SplitFrom(Tail(s), sep, <<>>)
    ELSE SplitFrom(Tail(s), sep, Append(cur, Head(s)))

Split(s, sep) == SplitFrom(s, sep, <<>>)

RECURSIVE ReadLinesFrom(_, _)
\* file_desc.readlines(): the lines, each with its "\n"; a last line without
\* "\n" is a line too
ReadLinesFrom(s, cur) ==
    IF s = <<>> THEN (IF cur = <<>> THEN <<>> ELSE <<cur>>)
    ELSE IF Head(s) = "\n"
         THEN <<Append(cur, "\n")>> \o ReadLinesFrom(Tail(s), <<>>)
         ELSE ReadLinesFrom(Tail(s), Append(cur, Head(s)))

ReadLines(s) == ReadLinesFrom(s, <<>>)

LastIndexOf(s, c) ==
    LET hits == {i \in 1..Len(s) : s[i] = c}
    IN IF hits = {} THEN 0 ELSE CHOOSE i \in hits : \A j \in hits : j <= i

\* os.path.join(a, b) (posixpath)
Join(a, b) ==
    IF b # <<>> /\ Head(b) = "/" THEN b
    ELSE IF a = <<>> \/ a[Len(a)] = "/" THEN a \o b
    ELSE a \o <<"/">> \o b

RECURSIVE RStripSlash(_)
RStripSlash(s) ==
    IF s # <<>> /\ s[Len(s)] = "/"
    THEN RStripSlash(SubSeq(s, 1, Len(s) - 1))
    ELSE s

\* os.path.dirname(p) (posixpath)
Dirname(p) ==
    LET head == SubSeq(p, 1, LastIndexOf(p, "/"))
    IN IF head # <<>> /\ \E i \in 1..Len(head) : head[i] # "/"
       THEN RStripSlash(head)
       ELSE head

(***************************************************************************)
(* The filesystem                                                          *)
(***************************************************************************)
\* an empty directory
EmptyDir == [labels |-> None, extra |-> None]

\* os.path.exists(p), and os.stat(p) not raising
Exists(fsys, p) == p \in DOMAIN fsys

\* os.rename(src, dst) of a directory onto a name that does not exist
Rename(fsys, src, dst) ==
    [q \in (DOMAIN fsys \ {src}) \cup {dst} |->
        IF q = dst THEN fsys[src] ELSE fsys[q]]

\* rm_rf(p): the directory and all it holds
RmRf(fsys, p) == [q \in DOMAIN fsys \ {p} |-> fsys[q]]

MkdirAt(fsys, p) == [q \in DOMAIN fsys \cup {p} |->
                        IF q = p THEN EmptyDir ELSE fsys[q]]

(***************************************************************************)
(* Inputs                                                                  *)
(***************************************************************************)
WorkDirs == {<<"/", "w">>, <<"/", "v">>}

\* the id time.strftime(DOCNAME_FORMAT) gives a new document
NewDocid == <<"N">>

\* ids given to the constructor and to the docid setter
BaseIds == {<<"A">>, <<"B">>, <<"A", "_", "0", "1">>}

\* directories other documents are created under, next to this one
SiblingNames == {<<"A">>, <<"A", "_", "0", "1">>, <<"N">>}

(***************************************************************************)
(* The cache                                                               *)
(***************************************************************************)
EmptyCache == [labels |-> None, nb_pages |-> None]

\* drop_cache that drops nothing
DropCache_Keep(c) == c

\* drop_cache
DropCache(c) == EmptyCache

\* drop_cache(), called from outside
DropCacheCall ==
    /\ cache' = DropCache(cache)
    /\ last' = Call("dropCache", None, "done")
    /\ UNCHANGED <<docid, path, fs, added, faults, stored>>

\* self._get_nb_pages(): the page store counts its pages
GetNbPagesOfStore == stored

\* a page is added to the page store
StorePage ==
    /\ stored < MaxPages
    /\ stored' = stored + 1
    /\ last' = Call("storePage", None, "done")
    /\ UNCHANGED <<docid, path, cache, fs, added, faults>>

\* the cache is never found to hold the number of pages
NbPagesCached_Never(c) == None

\* 'nb_pages' in self.__cache, and the value held
NbPagesCached(c) == c.nb_pages

\* nb_pages (read)
ReadNbPages ==
    /\ IF NbPagesCached(cache) = None
       THEN /\ cache' = [cache EXCEPT !.nb_pages = Some(GetNbPagesOfStore)]
            /\ last' = CallRet("nbPages", None, "miss", GetNbPagesOfStore)
       ELSE /\ UNCHANGED cache
            /\ last' = CallRet("nbPages", None, "hit", NbPagesCached(cache)[1])
    /\ UNCHANGED <<docid, path, fs, added, faults, stored>>

(***************************************************************************)
(* Identity and path                                                       *)
(***************************************************************************)
\* new_base_docid + ("_%02d" % idx); idx = 0 is new_base_docid itself
CandidateId(new_base_docid, idx) ==
    IF idx = 0 THEN new_base_docid
    ELSE new_base_docid \o <<"_">> \o Fmt02d(idx)

RECURSIVE ProbeIdx(_, _, _, _)
\* the while loop of __set_docid: the idx it ends with
ProbeIdx(fsys, workdir, new_base_docid, idx) ==
    IF Exists(fsys, Join(workdir, CandidateId(new_base_docid, idx)))
    THEN ProbeIdx(fsys, workdir, new_base_docid, idx + 1)
    ELSE idx

\* new_docid without the while loop
NewDocidOf_NoProbe(fsys, workdir, new_base_docid) == new_base_docid

\* new_docid when the while loop has ended
NewDocidOf(fsys, workdir, new_base_docid) ==
    CandidateId(new_base_docid, ProbeIdx(fsys, workdir, new_base_docid, 0))

\* the rename without self.path = new_docpath
PathAfterRename_Stale(old_path, new_docpath) == old_path

\* self.path = new_docpath, after the rename
PathAfterRename(old_path, new_docpath) == new_docpath

\* is_new answered from the id the document was constructed with
IsNew_FromId == docid = NewDocid

\* is_new
IsNew == ~Exists(fs, path)

\* is_new (read)
ReadIsNew ==
    /\ last' = CallRet("isNew", None, "done", IsNew)
    /\ UNCHANGED <<docid, path, cache, fs, added, faults, aux>>

\* __set_docid(new_base_docid), reached by the call op(a1).  rename_ok:
\* whether os.rename succeeds when its source exists (it raises OSError when
\* the source does not exist, and may raise for reasons outside the program:
\* permissions, another device)
AssignDocid(op, a1, new_base_docid, rename_ok) ==
    LET workdir     == Dirname(path)
        new_docid   == NewDocidOf(fs, workdir, new_base_docid)
        new_docpath == Join(workdir, new_docid)
    IN /\ docid' = new_docid
       /\ IF path # new_docpath
          THEN IF Exists(fs, path) /\ rename_ok
               THEN /\ fs' = Rename(fs, path, new_docpath)
                    /\ path' = PathAfterRename(path, new_docpath)
                    /\ last' = Call(op, a1, "renamed")
               ELSE /\ UNCHANGED <<fs, path>>
                    /\ last' = Call(op, a1, "rename_raised")
          ELSE /\ UNCHANGED <<fs, path>>
               /\ last' = Call(op, a1, "same_path")
       /\ UNCHANGED <<cache, added, faults>>

\* docid = new_base_docid
SetDocid(new_base_docid, rename_ok) ==
    AssignDocid("setId", new_base_docid, new_base_docid, rename_ok)

\* destroy
Destroy ==
    /\ fs' = RmRf(fs, path)
    /\ cache' = DropCache(cache)
    /\ added' = Some(<<>>)
    /\ last' = Call("destroy", None, "done")
    /\ UNCHANGED <<docid, path, faults>>

\* another document, or this one's directory, is created in the work directory
Mkdir(name) ==
    /\ ~Exists(fs, Join(Dirname(path), name))
    /\ fs' = MkdirAt(fs, Join(Dirname(path), name))
    /\ last' = Call("mkdir", name, "done")
    /\ UNCHANGED <<docid, path, cache, added, faults>>

(***************************************************************************)
(* Labels                                                                  *)
(***************************************************************************)
\* labels.Label(name, color): equal when name and color are equal
Label(name, color) == [name |-> name, color |-> color]

\* label.get_color_str(): the color as the string Label(color=...) reads back
GetColorStr(label) == label.color

\* labels given to add_label, remove_label and update_label: one name in two
\* colors, and a name that holds a comma
LabelInputs ==
    { Label(<<"a">>, <<"r">>), Label(<<"a">>, <<"g">>),
      Label(<<"a", ",", "b">>, <<"r">>) }

\* the same, and a name that starts with a blank
BlankLabelInputs == LabelInputs \cup {Label(<<" ", "a">>, <<"r">>)}

\* label in labels
Contains(labels, label) == \E i \in 1..Len(labels) : labels[i] = label

\* labels.remove(label): without the first label equal to it (the callers
\* have looked for one; with none the list is as it was)
ListRemove(labels, label) ==
    LET hits == {k \in 1..Len(labels) : labels[k] = label}
        i    == CHOOSE k \in hits : \A j \in hits : k <= j
    IN IF hits = {} THEN labels
       ELSE SubSeq(labels, 1, i - 1) \o SubSeq(labels, i + 1, Len(labels))

\* "%s,%s\n" % (label.name, label.get_color_str())
FormatLine(label) == label.name \o <<",">> \o GetColorStr(label) \o <<"\n">>

RECURSIVE FormatLines(_)
\* what the for loop of remove_label and update_label writes
FormatLines(labels) ==
    IF labels = <<>> THEN <<>>
    ELSE FormatLine(Head(labels)) \o FormatLines(Tail(labels))

\* line.strip().split(",")
LineFields(line) == Split(Strip(line), ",")

\* (label_name, label_color) = ... raises ValueError unless there are two fields
LineParses(line) == Len(LineFields(line)) = 2

ParseLine(line) == Label(LineFields(line)[1], LineFields(line)[2])

\* the body of __get_labels on a cache miss: IOError (no directory, no file)
\* gives no labels; a line that does not unpack raises ValueError
ReadLabelFile(fsys, p) ==
    IF ~Exists(fsys, p) \/ fsys[p].labels = None
    THEN [raised |-> FALSE, labels |-> <<>>]
    ELSE LET lines == ReadLines(fsys[p].labels[1])
         IN IF \E i \in 1..Len(lines) : ~LineParses(lines[i])
            THEN [raised |-> TRUE, labels |-> <<>>]
            ELSE [raised |-> FALSE,
                  labels |-> [i \in 1..Len(lines) |-> ParseLine(lines[i])]]

\* self.labels read from the file at every call
GetLabels_Uncached(c, fsys, p) ==
    LET r == ReadLabelFile(fsys, p)
    IN [raised |-> r.raised, value |-> r.labels,
        cache  |-> IF r.raised THEN c ELSE [c EXCEPT !.labels = Some(r.labels)]]

\* self.labels: the list, the cache afterwards, or the ValueError
GetLabels(c, fsys, p) ==
    IF c.labels # None
    THEN [raised |-> FALSE, value |-> c.labels[1], cache |-> c]
    ELSE LET r == ReadLabelFile(fsys, p)
         IN IF r.raised
            THEN [raised |-> TRUE, value |-> <<>>, cache |-> c]
            ELSE [raised |-> FALSE, value |-> r.labels,
                  cache |-> [c EXCEPT !.labels = Some(r.labels)]]

\* the label file of directory p holding content
WithLabelFile(fsys, p, content) == [fsys EXCEPT ![p].labels = Some(content)]

\* what a write that fails part-way may leave of content
ProperPrefixes(content) == {SubSeq(content, 1, k) : k \in 0..(Len(content) - 1)}

\* how opening and writing a file goes
IoOutcomes == {"ok", "open_raises", "write_raises"}

\* the environment fails an open or a write only MaxFaults times; a call
\* that reaches no open and no write counts none
Faulty(io) ==
    /\ io # "ok" => faults < MaxFaults
    /\ faults' = IF last'.branch \in {"open_raised", "write_raised"} /\ io # "ok"
                 THEN faults + 1 ELSE faults

\* the guard of add_label
AlreadyLabelled(labels, label) == Contains(labels, label)

\* remove_label without its guard
NothingToRemove_Never(labels, to_remove) == FALSE

\* the guard of remove_label
NothingToRemove(labels, to_remove) == ~Contains(labels, to_remove)

\* labels (read)
ReadLabels ==
    LET r == GetLabels(cache, fs, path)
    IN /\ cache' = r.cache
       /\ last' = Call("labels", None,
                       IF r.raised THEN "parse_raised" ELSE "done")
       /\ UNCHANGED <<docid, path, fs, added, faults>>

\* add_label(label)
AddLabel(label, io) ==
    LET r    == GetLabels(cache, fs, path)
        old  == IF fs[path].labels = None THEN <<>> ELSE fs[path].labels[1]
        line == FormatLine(label)
    IN /\ UNCHANGED <<docid, path>>
       /\ IF r.raised
          THEN /\ UNCHANGED <<cache, fs, added>>
               /\ last' = Call("addLabel", Some(label), "parse_raised")
          ELSE IF AlreadyLabelled(r.value, label)
          THEN /\ cache' = r.cache
               /\ UNCHANGED <<fs, added>>
               /\ last' = Call("addLabel", Some(label), "noop")
          ELSE IF ~Exists(fs, path) \/ io = "open_raises"
          THEN /\ cache' = r.cache
               /\ UNCHANGED <<fs, added>>
               /\ last' = Call("addLabel", Some(label), "open_raised")
          ELSE IF io = "write_raises"
          THEN /\ cache' = r.cache
               /\ \E part \in ProperPrefixes(line) :
                      fs' = WithLabelFile(fs, path, old \o part)
               /\ added' = None
               /\ last' = Call("addLabel", Some(label), "write_raised")
          ELSE /\ fs' = WithLabelFile(fs, path, old \o line)
               /\ cache' = DropCache(r.cache)
               /\ added' = IF added = None THEN None
                           ELSE Some(Append(added[1], label))
               /\ last' = Call("addLabel", Some(label), "written")

\* the with block of remove_label and update_label: open(..., 'w') truncates,
\* the loop writes labels (the cached list, already changed), drop_cache follows
Rewrite(op, a1, c, labels, io) ==
    LET content == FormatLines(labels)
        changed == [c EXCEPT !.labels = Some(labels)]
    IN IF ~Exists(fs, path) \/ io = "open_raises"
       THEN /\ cache' = changed
            /\ UNCHANGED <<fs, added>>
            /\ last' = Call(op, a1, "open_raised")
       ELSE IF io = "write_raises" /\ content # <<>>
       THEN /\ cache' = changed
            /\ \E part \in ProperPrefixes(content) :
                   fs' = WithLabelFile(fs, path, part)
            /\ added' = None
            /\ last' = Call(op, a1, "write_raised")
       ELSE /\ fs' = WithLabelFile(fs, path, content)
            /\ cache' = DropCache(changed)
            /\ added' = None
            /\ last' = Call(op, a1, "written")

\* remove_label(to_remove)
RemoveLabel(to_remove, io) ==
    LET r == GetLabels(cache, fs, path)
    IN /\ UNCHANGED <<docid, path>>
       /\ IF r.raised
          THEN /\ UNCHANGED <<cache, fs, added>>
               /\ last' = Call("removeLabel", Some(to_remove), "parse_raised")
          ELSE IF NothingToRemove(r.value, to_remove)
          THEN /\ cache' = r.cache
               /\ UNCHANGED <<fs, added>>
               /\ last' = Call("removeLabel", Some(to_remove), "noop")
          ELSE Rewrite("removeLabel", Some(to_remove), r.cache,
                       ListRemove(r.value, to_remove), io)

\* update_label(old_label, new_label)
UpdateLabel(old_label, new_label, io) ==
    LET r == GetLabels(cache, fs, path)
    IN /\ UNCHANGED <<docid, path>>
       /\ IF r.raised
          THEN /\ UNCHANGED <<cache, fs, added>>
               /\ last' = Call("updateLabel", Some(old_label), "parse_raised")
          ELSE IF ~Contains(r.value, old_label)
          THEN /\ cache' = r.cache
               /\ UNCHANGED <<fs, added>>
               /\ last' = Call("updateLabel", Some(old_label), "noop")
          ELSE Rewrite("updateLabel", Some(old_label), r.cache,
                       Append(ListRemove(r.value, old_label), new_label), io)

\* the lines of the label file of the document (none when there is no file)
LabelFileLines ==
    IF ~Exists(fs, path) \/ fs[path].labels = None THEN <<>>
    ELSE ReadLines(fs[path].labels[1])

\* The with block of remove_label and update_label step by step, as another
\* reader of the file meets it.  codecs.open(..., 'w'): the file is truncated;
\* wr holds the list read from the file before the call (pre), the list to
\* write (post) and the labels not yet given to write() (rest)
RewriteOpen(op, a1, c, labels) ==
    /\ wr = None
    /\ Exists(fs, path)
    /\ fs' = WithLabelFile(fs, path, <<>>)
    /\ cache' = [c EXCEPT !.labels = Some(labels)]
    /\ added' = None
    /\ wr' = Some([op |-> op, a1 |-> a1,
                   pre  |-> ReadLabelFile(fs, path).labels,
                   post |-> labels, rest |-> labels])
    /\ last' = Call(op, a1, "opened")
    /\ UNCHANGED <<docid, path, faults>>

\* remove_label(to_remove) up to the open
RemoveLabelOpen(to_remove) ==
    LET r == GetLabels(cache, fs, path)
    IN /\ ~r.raised
       /\ ~NothingToRemove(r.value, to_remove)
       /\ RewriteOpen("removeLabel", Some(to_remove), r.cache,
                      ListRemove(r.value, to_remove))

\* update_label(old_label, new_label) up to the open
UpdateLabelOpen(old_label, new_label) ==
    LET r == GetLabels(cache, fs, path)
    IN /\ ~r.raised
       /\ Contains(r.value, old_label)
       /\ RewriteOpen("updateLabel", Some(old_label), r.cache,
                      Append(ListRemove(r.value, old_label), new_label))

\* file_desc.write(line) in the for loop: the line goes to the buffer of the
\* file object, and the file holds the lines flushed so far: as many as
\* before, or more, up to all the lines written
RewriteWrite ==
    /\ wr # None
    /\ wr[1].rest # <<>>
    /\ LET written == Len(wr[1].post) - Len(wr[1].rest) + 1
       IN \E n \in Len(LabelFileLines)..written :
              fs' = WithLabelFile(fs, path,
                                  FormatLines(SubSeq(wr[1].post, 1, n)))
    /\ wr' = Some([wr[1] EXCEPT !.rest = Tail(wr[1].rest)])
    /\ last' = Call(wr[1].op, wr[1].a1, "writing")
    /\ UNCHANGED <<docid, path, cache, added, faults>>

\* the end of the with block (the file is flushed and closed), and drop_cache
RewriteClose ==
    /\ wr # None
    /\ wr[1].rest = <<>>
    /\ fs' = WithLabelFile(fs, path, FormatLines(wr[1].post))
    /\ cache' = DropCache(cache)
    /\ wr' = None
    /\ last' = Call(wr[1].op, wr[1].a1, "written")
    /\ UNCHANGED <<docid, path, added, faults>>

\* BasicDoc(path, docid).labels: a read by a new object of the same path
FreshRead ==
    LET r == GetLabels(EmptyCache, fs, path)
    IN /\ last' = CallRet("freshLabels", None,
                          IF r.raised THEN "parse_raised" ELSE "done", r.value)
       /\ UNCHANGED <<docid, path, cache, fs, added, faults, wr>>

(***************************************************************************)
(* Extra text                                                              *)
(***************************************************************************)
\* texts given to the extra_text setter
TextInputs == {<<>>, <<" ">>, <<"x">>, <<" ", "x", "\n">>}

\* the extra-text file of directory p, if any
ExtraFile(fsys, p) == IF Exists(fsys, p) THEN fsys[p].extra ELSE None

\* extra_text (read)
GetExtraText(fsys, p) ==
    IF ExtraFile(fsys, p) = None THEN <<>> ELSE ExtraFile(fsys, p)[1]

\* txt.strip() left out
StrippedText_Raw(txt) == txt

\* txt = txt.strip()
StrippedText(txt) == Strip(txt)

\* extra_text = txt
SetExtraText(txt) ==
    LET stripped == StrippedText(txt)
    IN /\ IF stripped = <<>>
          THEN IF ExtraFile(fs, path) = None
               THEN \* os.unlink raises OSError: there is no such file
                    /\ UNCHANGED fs
                    /\ last' = Call("setExtraText", txt, "unlink_raised")
               ELSE /\ fs' = [fs EXCEPT ![path].extra = None]
                    /\ last' = Call("setExtraText", txt, "unlinked")
          ELSE IF ~Exists(fs, path)
               THEN \* codecs.open raises IOError: there is no such directory
                    /\ UNCHANGED fs
                    /\ last' = Call("setExtraText", txt, "open_raised")
               ELSE /\ fs' = [fs EXCEPT ![path].extra = Some(stripped)]
                    /\ last' = Call("setExtraText", txt, "written")
       /\ UNCHANGED <<docid, path, cache, added, faults>>

(***************************************************************************)
(* Date                                                                    *)
(***************************************************************************)
\* s[a:b]
Slice(s, a, b) == SubSeq(s, a + 1, IF b < Len(s) THEN b ELSE Len(s))

DigitVal(c) == CHOOSE n \in 0..9 : DigitChars[n + 1] = c

IsDigit(c) == \E n \in 1..10 : DigitChars[n] = c

RECURSIVE DecVal(_)
DecVal(digits) ==
    IF digits = <<>> THEN 0
    ELSE 10 * DecVal(SubSeq(digits, 1, Len(digits) - 1))
            + DigitVal(digits[Len(digits)])

\* int(s): whitespace around the number is dropped, one sign is accepted,
\* and what is left must be one or more decimal digits, else ValueError
ParseInt(s) ==
    LET t      == Strip(s)
        signed == t # <<>> /\ Head(t) \in {"+", "-"}
        digits == IF signed THEN Tail(t) ELSE t
        raised == digits = <<>> \/ \E i \in 1..Len(digits) : ~IsDigit(digits[i])
    IN [raised |-> raised,
        value  |-> IF raised THEN 0
                   ELSE IF signed /\ Head(t) = "-" THEN 0 - DecVal(digits)
                   ELSE DecVal(digits)]

\* except (IndexError, ValueError): return (1985, 12, 19)
SentinelDate == <<1985, 12, 19>>

\* date (read), for a document whose id is id
GetDate(id) ==
    LET split == Split(id, "_")[1]
        year  == ParseInt(Slice(split, 0, 4))
        month == ParseInt(Slice(split, 4, 6))
        day   == ParseInt(Slice(split, 6, 8))
    IN IF year.raised \/ month.raised \/ day.raised
       THEN [fallback |-> TRUE, value |-> SentinelDate]
       ELSE [fallback |-> FALSE,
             value    |-> <<year.value, month.value, day.value>>]

ReadDate ==
    /\ last' = CallRet("date", None,
                       IF GetDate(docid).fallback THEN "fallback" ELSE "parsed",
                       GetDate(docid).value)
    /\ UNCHANGED <<docid, path, cache, fs, added, faults>>

\* "%04d" % n
Fmt04d(n) ==
    [k \in 1..(4 - Len(DecStr(n))) |-> "0"] \o DecStr(n)

\* the id of a date, were the year padded to four digits
DateIdOf_FourDigitYear(new_date) ==
    Fmt04d(new_date[1]) \o Fmt02d(new_date[2]) \o Fmt02d(new_date[3])
        \o <<"_", "0", "0", "0", "0", "_", "0", "1">>

\* "%02d%02d%02d_0000_01" % (new_date[0], new_date[1], new_date[2])
DateIdOf(new_date) ==
    Fmt02d(new_date[1]) \o Fmt02d(new_date[2]) \o Fmt02d(new_date[3])
        \o <<"_", "0", "0", "0", "0", "_", "0", "1">>

\* date = new_date
SetDate(new_date, rename_ok) ==
    AssignDocid("setDate", new_date, DateIdOf(new_date), rename_ok)

\* the dates written
DateInputs ==
    {<<5, 1, 1>>, <<999, 1, 1>>, <<999, 12, 31>>, <<1000, 1, 1>>,
     <<9999, 12, 31>>}

\* the ids documents are constructed with and given
DateDocids ==
    {<<"n", "o", "t", "-", "a", "-", "d", "a", "t", "e">>,
     <<"2", "0", "2", "4", "0", "1", "3">>,
     DateIdOf(<<1000, 1, 1>>)}

\* the other documents that appear in the work directory
DateSiblings ==
    {DateIdOf(<<1000, 1, 1>>),
     DateIdOf(<<1000, 1, 1>>) \o <<"_", "0", "1">>,
     DateIdOf(<<999, 1, 1>>)}

(***************************************************************************)
(* Construction                                                            *)
(***************************************************************************)
\* BasicDoc(docpath): a new document, its directory not created yet
InitNew(workdirs) ==
    \E docpath \in workdirs :
        /\ docid = NewDocid
        /\ path = Join(docpath, docid)
        /\ fs = <<>>

\* BasicDoc(docpath, docid): a document whose directory exists
InitExisting(workdirs, ids) ==
    \E workdir \in workdirs, name \in ids, id \in ids :
        /\ docid = id
        /\ path = Join(workdir, name)
        /\ fs = MkdirAt(<<>>, path)

InitOf(workdirs, ids) ==
    /\ InitNew(workdirs) \/ InitExisting(workdirs, ids)
    /\ cache = EmptyCache
    /\ added = Some(<<>>)
    /\ faults = 0
    /\ last = Call("init", None, "done")
    /\ stored = 0
    /\ counted = <<>>
    /\ other = EmptyCache
    /\ told = {}
    /\ wr = None

\* the calls, with their arguments drawn from the given sets
NextOf(ids, siblings, labels, ios, texts) ==
    /\ \/ \E b \in ids, ok \in BOOLEAN : SetDocid(b, ok)
       \/ Destroy
       \/ \E n \in siblings : Mkdir(n)
       \/ ReadLabels
       \/ \E l \in labels, io \in ios :
              Len(LabelFileLines) < MaxLabels /\ AddLabel(l, io) /\ Faulty(io)
       \/ \E l \in labels, io \in ios : RemoveLabel(l, io) /\ Faulty(io)
       \/ \E l1 \in labels, l2 \in labels, io \in ios :
              UpdateLabel(l1, l2, io) /\ Faulty(io)
       \/ \E txt \in texts : SetExtraText(txt)
    /\ UNCHANGED aux

\* identity, path and extra text: every id, sibling and text, one label, no
\* write of the label file failing
Init == InitOf(WorkDirs, BaseIds)

Next ==
    \/ NextOf(BaseIds, SiblingNames, {Label(<<"a">>, <<"r">>)}, {"ok"},
              TextInputs)
    \/ ReadIsNew

Spec == Init /\ [][Next]_vars

\* the label store: one work directory, one id, no write failing
InitLabels == InitOf({<<"/", "w">>}, {<<"A">>})

NextLabels == NextOf({<<"A">>}, {NewDocid}, LabelInputs, {"ok"}, {<<" ">>})

SpecLabels == InitLabels /\ [][NextLabels]_vars

\* the label store, with a label whose name starts with a blank
NextBlank == NextOf({<<"A">>}, {NewDocid}, BlankLabelInputs, {"ok"}, {<<" ">>})

SpecBlank == InitLabels /\ [][NextBlank]_vars

\* the label store, with opens and writes of the label file that fail
NextFaults ==
    NextOf({<<"A">>}, {NewDocid},
           {Label(<<"a">>, <<"r">>), Label(<<"a">>, <<"g">>)}, IoOutcomes,
           {<<" ">>})

SpecFaults == InitLabels /\ [][NextFaults]_vars

\* dates: ids that hold a date, part of one, or none, and dates written
InitDate == InitOf({<<"/", "w">>}, DateDocids)

NextDate ==
    /\ \/ \E b \in DateDocids, ok \in BOOLEAN : SetDocid(b, ok)
       \/ \E new_date \in DateInputs, ok \in BOOLEAN : SetDate(new_date, ok)
       \/ ReadDate
       \/ Destroy
       \/ \E n \in DateSiblings : Mkdir(n)
    /\ UNCHANGED aux

SpecDate == InitDate /\ [][NextDate]_vars

\* the calls that return after a drop_cache()
Dropped(call) ==
    \/ call.op \in {"dropCache", "destroy"}
    \/ call.op \in {"addLabel", "removeLabel", "updateLabel"}
          /\ call.branch = "written"

\* pages: the page count read while pages are stored and the cache dropped
NextPages ==
    /\ \/ ReadNbPages
       \/ DropCacheCall
       \/ StorePage
       \/ Destroy /\ UNCHANGED stored
       \/ Mkdir(<<"A">>) /\ UNCHANGED stored
       \/ ReadLabels /\ UNCHANGED stored
       \/ \E l \in {Label(<<"a">>, <<"r">>)}, l2 \in LabelInputs :
              /\ \/ Len(LabelFileLines) < MaxLabels /\ AddLabel(l, "ok")
                 \/ RemoveLabel(l, "ok")
                 \/ UpdateLabel(l, l2, "ok")
              /\ Faulty("ok")
              /\ UNCHANGED stored
    /\ counted' = IF last'.op = "nbPages" /\ last'.branch = "miss"
                  THEN Append(counted, last'.ret)
                  ELSE IF Dropped(last') THEN <<>> ELSE counted
    /\ UNCHANGED <<other, told, wr>>

SpecPages == InitLabels /\ [][NextPages]_vars

\* two BasicDoc objects of one path: cache is the cache of the one that is
\* called, other the cache of the one that is not; the calls go to the other
\* object from now on
OtherInstance ==
    /\ cache' = other
    /\ other' = cache
    /\ last' = Call("otherInstance", None, "done")
    /\ UNCHANGED <<docid, path, fs, added, faults>>

\* the labels of the two-instance calls
TwoLabels == {Label(<<"a">>, <<"r">>), Label(<<"a">>, <<"g">>)}

\* two instances: labels read, added and removed through either of them
NextTwo ==
    /\ \/ OtherInstance
       \/ ReadLabels /\ UNCHANGED other
       \/ \E l \in TwoLabels :
              /\ Len(LabelFileLines) < MaxLabels
              /\ AddLabel(l, "ok") /\ Faulty("ok") /\ UNCHANGED other
       \/ \E l \in TwoLabels :
              RemoveLabel(l, "ok") /\ Faulty("ok") /\ UNCHANGED other
    /\ told' = IF last'.op = "addLabel" /\ last'.branch = "written"
               THEN told \cup {last'.a1[1]}
               ELSE IF last'.op = "removeLabel" /\ last'.branch = "written"
               THEN told \ {last'.a1[1]}
               ELSE told
    /\ UNCHANGED <<stored, counted, wr>>

SpecTwo == InitLabels /\ [][NextTwo]_vars

\* the labels of the rewrites
RewriteLabels == TwoLabels \cup {Label(<<"b">>, <<"r">>)}

\* a rewrite under way: one object adds, removes and updates labels, new
\* objects of the same path read the labels at any time
NextRewrite ==
    /\ \/ \E l \in RewriteLabels :
              /\ wr = None
              /\ Len(LabelFileLines) < MaxLabels
              /\ AddLabel(l, "ok") /\ Faulty("ok") /\ UNCHANGED wr
       \/ \E l \in RewriteLabels : RemoveLabelOpen(l)
       \/ \E l1 \in RewriteLabels, l2 \in RewriteLabels : UpdateLabelOpen(l1, l2)
       \/ RewriteWrite
       \/ RewriteClose
       \/ FreshRead
    /\ UNCHANGED <<stored, counted, other, told>>

SpecRewrite == InitLabels /\ [][NextRewrite]_vars

(***************************************************************************)
(* Properties                                                              *)
(***************************************************************************)
LabelCalls == {"labels", "addLabel", "removeLabel", "updateLabel"}

\* the label file of the document, if any
LabelFile(fsys, p) == IF Exists(fsys, p) THEN fsys[p].labels ELSE None

\* no two labels of the list are equal
Distinct(labels) ==
    \A i \in 1..Len(labels), j \in 1..Len(labels) : labels[i] = labels[j] => i = j

\* C1: when the rename of a docid assignment fails, docid and path are what
\* they were before the call.
C1_SetIdFailsAtomically ==
    [][(last'.op = "setId" /\ last'.branch = "rename_raised")
         => (docid' = docid /\ path' = path)]_vars

\* C2: after a docid assignment that did not raise, path is the join of the
\* directory that held the path before the call and the new docid.
C2_IdPathSync ==
    [][(last'.op = "setId" /\ last'.branch # "rename_raised")
         => path' = Join(Dirname(path), docid')]_vars

C2_Witness ==
    /\ last.op = "setId"
    /\ last.branch = "renamed"
    /\ docid # last.a1
    /\ Exists(fs, path)

\* n in two digits, for 1 <= n <= 99
TwoDigits(n) == <<DigitChars[(n \div 10) + 1], DigitChars[(n % 10) + 1]>>

\* C3: a docid assignment of X gives X when X did not exist in the parent
\* directory, otherwise X_NN for the least NN >= 1 such that X_NN did not
\* exist; the rename goes to a path that did not exist, and every other
\* directory is still there with what it held.
C3_CollisionAvoidance ==
    [][last'.op = "setId" =>
        LET parent  == Dirname(path)
            X       == last'.a1
            Free(n) == ~Exists(fs, Join(parent, X \o <<"_">> \o TwoDigits(n)))
        IN /\ IF ~Exists(fs, Join(parent, X))
              THEN docid' = X
              ELSE \E n \in 1..(Cardinality(DOMAIN fs) + 1) :
                      /\ docid' = X \o <<"_">> \o TwoDigits(n)
                      /\ Free(n)
                      /\ \A m \in 1..(n - 1) : ~Free(m)
           /\ last'.branch = "renamed" => ~Exists(fs, path')
           /\ \A q \in DOMAIN fs \ {path} : Exists(fs', q) /\ fs'[q] = fs[q]
      ]_vars

C3_Witness ==
    /\ last.op = "setId"
    /\ last.branch = "renamed"
    /\ docid = last.a1 \o <<"_", "0", "2">>
    /\ Exists(fs, Join(Dirname(path), last.a1))
    /\ Exists(fs, Join(Dirname(path), last.a1 \o <<"_", "0", "1">>))

\* the label file holds exactly the cached label list, if there is one
FileHoldsList(c, fsys, p) ==
    c.labels # None =>
        ReadLabelFile(fsys, p) = [raised |-> FALSE, labels |-> c.labels[1]]

\* C4: once a call of the label store has returned or raised, the label file
\* holds exactly the in-memory label list, or neither the label file nor the
\* cached label list differs from what it was before the call.
C4_LabelStoreAllOrNothing ==
    [][last'.op \in LabelCalls =>
        \/ FileHoldsList(cache', fs', path')
        \/ /\ LabelFile(fs', path') = LabelFile(fs, path)
           /\ cache'.labels = cache.labels
      ]_vars

\* C5: neither the label list nor the label file ever holds two equal labels.
C5_LabelsUnique ==
    /\ cache.labels # None => Distinct(cache.labels[1])
    /\ ~ReadLabelFile(fs, path).raised => Distinct(ReadLabelFile(fs, path).labels)

\* C6: add_label(L) right after an add_label(L) that returned leaves the label
\* file and the label list as they were after the first, and writes nothing.
C6_AddLabelIdempotent ==
    [][(/\ last.op = "addLabel"
        /\ last.branch \in {"written", "noop"}
        /\ last'.op = "addLabel"
        /\ last'.a1 = last.a1)
         => /\ fs' = fs
            /\ last'.branch # "written"
            /\ ReadLabelFile(fs', path') = ReadLabelFile(fs, path)]_vars

\* the label has no comma in its name or its color
NoComma(label) ==
    /\ \A i \in 1..Len(label.name) : label.name[i] # ","
    /\ \A i \in 1..Len(label.color) : label.color[i] # ","

\* C7: when distinct labels without commas have been added to a document that
\* had no label file, a read of the labels with a fresh cache gives those
\* labels, in the order they were added.
C7_LabelRoundTrip ==
    (/\ added # None
     /\ Distinct(added[1])
     /\ \A i \in 1..Len(added[1]) : NoComma(added[1][i]))
      => ReadLabelFile(fs, path) = [raised |-> FALSE, labels |-> added[1]]

\* C8: remove_label(L) and update_label(L, L2) with L not in the label list
\* leave the filesystem, the label file with it, as it was (no file is made),
\* and the label list as it was.
C8_NoopFrame ==
    [][(/\ last'.op \in {"removeLabel", "updateLabel"}
        /\ ~GetLabels(cache, fs, path).raised
        /\ ~Contains(GetLabels(cache, fs, path).value, last'.a1[1]))
         => /\ fs' = fs
            /\ ~GetLabels(cache', fs', path').raised
            /\ GetLabels(cache', fs', path').value
                 = GetLabels(cache, fs, path).value]_vars

C8_Witness ==
    /\ last.op = "removeLabel"
    /\ last.branch = "noop"
    /\ Exists(fs, path)
    /\ LabelFile(fs, path) = None

\* C9: after add_label, remove_label or update_label has written the label
\* file and returned, a read of the labels on the same instance gives what a
\* read with a fresh cache gives.
C9_CacheInvalidation ==
    (last.op \in {"addLabel", "removeLabel", "updateLabel"} /\ last.branch = "written")
      => /\ GetLabels(cache, fs, path).raised = ReadLabelFile(fs, path).raised
         /\ GetLabels(cache, fs, path).value = ReadLabelFile(fs, path).labels

C9_Witness ==
    /\ last.op = "addLabel"
    /\ last.branch = "written"
    /\ Len(ReadLabelFile(fs, path).labels) = 2
    /\ GetLabels(cache, fs, path).value = ReadLabelFile(fs, path).labels

\* C10: writing an extra text that is empty once stripped, with no side file,
\* does not raise, and there is still no side file.
C10_EmptyTextNoFileIsNoop ==
    [][(/\ last'.op = "setExtraText"
        /\ Strip(last'.a1) = <<>>
        /\ ExtraFile(fs, path) = None)
         => /\ last'.branch \notin {"unlink_raised", "open_raised"}
            /\ ExtraFile(fs', path') = None]_vars

\* C11: with a side file, writing a text that is empty once stripped removes
\* the file, and a read then gives the empty string; a write of any other
\* text to an existing document is made, and a read then gives the text
\* without its leading and trailing whitespace.
C11_ExtraTextEmptyDeletes ==
    [][last'.op = "setExtraText" =>
        LET trimmed == RStrip(LStrip(last'.a1))
        IN /\ (ExtraFile(fs, path) # None /\ trimmed = <<>>)
                => /\ last'.branch = "unlinked"
                   /\ ExtraFile(fs', path') = None
                   /\ GetExtraText(fs', path') = <<>>
           /\ (Exists(fs, path) /\ trimmed # <<>>)
                => /\ last'.branch = "written"
                   /\ GetExtraText(fs', path') = trimmed
      ]_vars

C11_Witness ==
    /\ last.op = "setExtraText"
    /\ last.branch = "unlinked"
    /\ last.a1 = <<" ">>
    /\ Exists(fs, path)
    /\ GetExtraText(fs, path) = <<>>

\* C14: is_new returns true exactly when nothing exists at the path of the
\* document, whatever was called before; creating the directory makes the
\* document not new, destroy makes it new, and a renamed document is not new.
C14_IsNewIsLive ==
    [][/\ last'.op = "isNew" => (last'.ret <=> path' \notin DOMAIN fs')
       /\ (last'.op = "mkdir" /\ Join(Dirname(path), last'.a1) = path)
            => Exists(fs', path')
       /\ last'.op = "destroy" => ~Exists(fs', path')
       /\ (last'.op = "setId" /\ last'.branch = "renamed") => Exists(fs', path')
      ]_vars

C14_Witness ==
    /\ last.op = "isNew"
    /\ last.ret = TRUE
    /\ docid # NewDocid
    /\ cache.labels # None

\* C19: a docid assignment on a document whose directory exists either raises
\* or renames the directory to another path, also when the id assigned is the
\* current one (the new id then has a suffix); the rename is skipped only for
\* a document with no directory whose path is the first free candidate.
C19_ExistingAlwaysRenames ==
    [][last'.op = "setId" =>
        /\ (Exists(fs, path) /\ last'.branch # "rename_raised")
             => /\ last'.branch = "renamed"
                /\ path' # path
                /\ ~Exists(fs', path)
                /\ Exists(fs', path')
                /\ DOMAIN fs' = (DOMAIN fs \ {path}) \cup {path'}
        /\ (Exists(fs, path) /\ path = Join(Dirname(path), last'.a1))
             => \E n \in 1..(Cardinality(DOMAIN fs) + 1) :
                    docid' = last'.a1 \o <<"_">> \o TwoDigits(n)
        /\ last'.branch = "same_path"
             => /\ ~Exists(fs, path)
                /\ path = Join(Dirname(path), docid')
                /\ fs' = fs
      ]_vars

C19_Witness ==
    /\ last.op = "setId"
    /\ last.branch = "renamed"
    /\ last.a1 = <<"A">>
    /\ docid = <<"A", "_", "0", "1">>
    /\ ~Exists(fs, Join(Dirname(path), <<"A">>))

\* C13: a date read raises nothing and changes neither the id, the path, the
\* cache nor a file; when the leading segment of the id is eight digits it
\* returns their year, month and day, and otherwise (1985, 12, 19).
C13_DateFallback ==
    [][last'.op = "date" =>
        LET seg == Split(docid, "_")[1]
            ymd == Len(seg) = 8 /\ \A i \in 1..8 : IsDigit(seg[i])
        IN /\ UNCHANGED <<docid, path, cache, fs>>
           /\ last'.branch \in {"parsed", "fallback"}
           /\ last'.ret = IF ymd
                          THEN <<DecVal(SubSeq(seg, 1, 4)),
                                 DecVal(SubSeq(seg, 5, 6)),
                                 DecVal(SubSeq(seg, 7, 8))>>
                          ELSE <<1985, 12, 19>>
      ]_vars

\* the id has _NN added to base, and no candidate before it was free
FirstFreeSuffix(fsys, workdir, base, id) ==
    \E n \in 1..(Cardinality(DOMAIN fsys) + 1) :
        /\ id = base \o <<"_">> \o TwoDigits(n)
        /\ Exists(fsys, Join(workdir, base))
        /\ \A k \in 1..(n - 1) :
               Exists(fsys, Join(workdir, base \o <<"_">> \o TwoDigits(k)))
        /\ ~Exists(fsys, Join(workdir, id))

\* C16: a date write of (y, m, d) gives the document the id YYYYMMDD_0000_01,
\* or that id with the first free _NN suffix, and unless the rename raises
\* the directory of the document is then at the path of that id.
C16_DateWrite ==
    [][last'.op = "setDate" =>
        LET y    == last'.a1[1]
            yyyy == <<DigitChars[((y \div 1000) % 10) + 1],
                      DigitChars[((y \div 100) % 10) + 1],
                      DigitChars[((y \div 10) % 10) + 1],
                      DigitChars[(y % 10) + 1]>>
            base == yyyy \o TwoDigits(last'.a1[2]) \o TwoDigits(last'.a1[3])
                        \o <<"_", "0", "0", "0", "0", "_", "0", "1">>
        IN /\ \/ docid' = base /\ ~Exists(fs, Join(Dirname(path), base))
              \/ FirstFreeSuffix(fs, Dirname(path), base, docid')
           /\ last'.branch # "rename_raised"
                => /\ path' = Join(Dirname(path), docid')
                   /\ Exists(fs, path) => Exists(fs', path')
      ]_vars

\* C20: on a document whose directory exists, after a date write of (y, m, d)
\* that did not raise, with 1000 <= y <= 9999, 1 <= m <= 12 and 1 <= d <= 31,
\* a date read returns (y, m, d), with or without a collision suffix in the
\* id; with y < 1000 the leading segment of the id has fewer than eight
\* characters and a date read returns another date.
C20_DateRoundTrip ==
    [][(last'.op = "setDate" /\ Exists(fs, path)
            /\ last'.branch # "rename_raised") =>
        LET y == last'.a1[1]
            m == last'.a1[2]
            d == last'.a1[3]
        IN /\ (y \in 1000..9999 /\ m \in 1..12 /\ d \in 1..31)
                => GetDate(docid').value = <<y, m, d>>
           /\ y < 1000
                => /\ Len(Split(docid', "_")[1]) < 8
                   /\ GetDate(docid').value # <<y, m, d>>
      ]_vars

\* a date written over a document of the same date: the id has a suffix
C20_Witness ==
    /\ last.op = "setDate"
    /\ last.branch = "renamed"
    /\ last.a1 = <<1000, 1, 1>>
    /\ Len(docid) > Len(DateIdOf(<<1000, 1, 1>>))
    /\ GetDate(docid).value = <<1000, 1, 1>>

\* C15: since the cache was last dropped the page store was asked for its
\* count at most once; a page count read asks it when it was not asked since
\* the last drop (also a drop by a label call or by destroy) and returns its
\* answer, and otherwise returns the answer it got then, whatever the store
\* holds by now.
C15_PageCountMemoized ==
    [][/\ Len(counted') <= 1
       /\ Dropped(last') => counted' = <<>>
       /\ last'.op = "nbPages" =>
            IF counted = <<>>
            THEN last'.ret = stored /\ counted' = <<stored>>
            ELSE last'.ret = counted[1] /\ counted' = counted
      ]_vars

\* a read after a label call dropped the cache counts again; a read after
\* that returns the count it holds while the store has one page more
C15_Witness ==
    /\ last.op = "nbPages"
    /\ last.branch = "hit"
    /\ last.ret = 1
    /\ stored = 2
    /\ LabelFile(fs, path) # None

\* labels without the labels equal to label
Without(labels, label) ==
    LET Other(l) == l # label IN SelectSeq(labels, Other)

\* C17: after remove_label(L) has returned, a read of the labels, on the same
\* instance and on a fresh one, does not raise and gives a list without L
\* that holds the other labels of the list before the call, in their order.
C17_RemoveLabelPostcondition ==
    [][(last'.op = "removeLabel" /\ last'.branch \in {"written", "noop"}) =>
        LET L     == last'.a1[1]
            pre   == GetLabels(cache, fs, path).value
            same  == GetLabels(cache', fs', path')
            fresh == ReadLabelFile(fs', path')
        IN /\ ~same.raised /\ ~fresh.raised
           /\ ~Contains(same.value, L) /\ ~Contains(fresh.labels, L)
           /\ same.value = Without(pre, L)
           /\ fresh.labels = Without(pre, L)
      ]_vars

\* C18: an instance that holds a label list in its cache decides add_label
\* and remove_label from that list and not from the file another instance has
\* written since: add_label appends a label its list lacks also when the
\* file holds it, and remove_label writes its list without the label over
\* whatever the file holds.
C18_StaleCacheDecides ==
    [][(last'.op \in {"addLabel", "removeLabel"} /\ cache.labels # None
            /\ Exists(fs, path)) =>
        LET L    == last'.a1[1]
            mine == cache.labels[1]
            file == IF LabelFile(fs, path) = None THEN <<>>
                    ELSE LabelFile(fs, path)[1]
        IN IF last'.op = "addLabel"
           THEN IF Contains(mine, L)
                THEN last'.branch = "noop" /\ fs' = fs
                ELSE /\ last'.branch = "written"
                     /\ LabelFile(fs', path') = Some(file \o FormatLine(L))
           ELSE IF Contains(mine, L)
                THEN /\ last'.branch = "written"
                     /\ LabelFile(fs', path')
                          = Some(FormatLines(ListRemove(mine, L)))
                ELSE last'.branch = "noop" /\ fs' = fs
      ]_vars

\* a lost update: one instance read the labels, the other added a label, and
\* the first removed another label: the file lacks the label added
C18_Witness ==
    /\ last.op = "removeLabel"
    /\ last.branch = "written"
    /\ \E l \in told : ~Contains(ReadLabelFile(fs, path).labels, l)

\* C12: a labels read by a new object while remove_label or update_label
\* is between its open and its close does not raise and returns the list the
\* file held before the call or the list the call writes.
C12_ReaderSeesWholeList ==
    [][(last'.op = "freshLabels" /\ wr # None) =>
         /\ last'.branch = "done"
         /\ last'.ret \in {wr[1].pre, wr[1].post}
      ]_vars

====
